---- MODULE Spec2Model ----
(***************************************************************************)
(* Task assignees of vikunja-api (pkg models, task_assignees.go):          *)
(* the task_assignees table, the single add / single remove handlers and   *)
(* the bulk replace BulkAssignees.Create -> Task.updateTaskAssignees, the  *)
(* list request TaskAssginee.ReadAll, and TeamNamespace.ReadAll           *)
(* (team_namespace_readall.go).                                            *)
(*                                                                         *)
(* Every database statement of a handler that reads or writes              *)
(* task_assignees or lists is one step of the calling process, so that     *)
(* statements of two handlers can interleave exactly as two HTTP requests  *)
(* can.  A lookup in a table no handler writes (tasks, users, namespaces)  *)
(* is taken together with the statement that follows it, except where a    *)
(* write precedes it.  The engine x executes each statement on its own     *)
(* (autocommit).  The session s of BulkAssignees.Create is created with    *)
(* x.NewSession() and Begin() is never called on it, so it is an           *)
(* autocommit session too: its statements take effect at once and its     *)
(* Commit() / Rollback() change nothing in the table.                      *)
(*                                                                         *)
(* A query without ORDER BY returns its rows in an order the database      *)
(* chooses: each such query is a choice over every order of its rows.      *)
(* When a handler has returned, its locals are kept as they were at the    *)
(* return until Release drops them; a client sends its next request after  *)
(* that.                                                                   *)
(***************************************************************************)
EXTENDS Integers, Sequences, FiniteSets, TLC

VARIABLES
    task_assignees,  \* the table: a set of rows [ID, TaskID, UserID]
    autoincr,        \* next value of the autoincr primary key ID
    lists,           \* the lists table: list ID -> number of writes of its `updated` column
    canRead,         \* users for which List.CanRead answers true on list 1
    call,            \* per process: the handler it runs and that handler's locals
    returned         \* the processes whose last call has returned, in the order of return

vars == <<task_assignees, autoincr, lists, canRead, call, returned>>

----------------------------------------------------------------------------
(* Bounds of the model *)

MaxLen == 2        \* longest desired list handed to the bulk replace
MaxRowID == 3      \* rows ever inserted (cap of the autoincr counter)
MaxUpdated == 4    \* writes of a list's `updated` column (cap of that counter)

----------------------------------------------------------------------------
(* Static data the handlers read *)

users == {1, 2, 3}              \* rows of the users table (by id)
UserIDs == users \cup {4}       \* ids a caller can send; 4 is no user
tasks == [t \in {1} |-> [ID |-> t, ListID |-> 1]]   \* the tasks table
TaskIDs == {1, 2}               \* ids a caller can send; 2 is no task
Procs == {"p1", "p2"}           \* request goroutines
Revocable == {3}                \* users whose access to list 1 changes over time

namespaces == {1}               \* rows of the namespaces table (by id)
NamespaceIDs == {1, 2}          \* ids a caller can send; 2 is no namespace
namespaceReaders == {1, 2}      \* users for which Namespace.CanRead answers true
teams == {1, 2}                 \* rows of the teams table (by id)
\* the team_namespaces table, its rows in the order they are stored; team 3
\* has no row in teams
team_namespaces ==
    << [TeamID |-> 2, NamespaceID |-> 1], [TeamID |-> 1, NamespaceID |-> 1],
       [TeamID |-> 3, NamespaceID |-> 1], [TeamID |-> 1, NamespaceID |-> 3] >>
Callers == {1, 3}               \* the authenticated users that send list requests

username == <<  <<"a">>, <<"a", "b">>, <<"B">>  >>   \* users.username, by id
\* search strings a caller can send
Searches == {<<>>, <<"A">>, <<"b">>, <<"_", "b">>}

RECURSIVE SeqsUpTo(_, _)
SeqsUpTo(S, n) ==
    IF n = 0 THEN {<<>>}
    ELSE LET shorter == SeqsUpTo(S, n - 1)
         IN  shorter \cup {Append(q, e) : q \in {r \in shorter : Len(r) = n - 1}, e \in S}

\* Desired lists a caller can send: the lists of distinct users in ascending
\* order, a list that names a user twice, a list with the user of changing
\* access first, and lists that name the unknown id alone, first, or last.
Ascending(q) == \A k \in 1..(Len(q) - 1) : q[k] < q[k + 1]

DesiredLists ==
    {d \in SeqsUpTo(users, MaxLen) : Ascending(d)}
        \cup {<<1, 1>>, <<3, 1>>, <<4>>, <<4, 3>>, <<3, 4>>, <<1, 4>>}

\* <<work item, principal>> of a single add or remove
Pairs == {<<1, u>> : u \in UserIDs} \cup {<<2, 1>>}

\* <<work item, desired list>> of a bulk replace
BulkInputs == {<<1, d>> : d \in DesiredLists} \cup {<<2, <<>>>>}

Range(q) == {q[k] : k \in 1..Len(q)}

----------------------------------------------------------------------------
(* Errors *)

Nil == [type |-> "nil"]
ErrPersistence == [type |-> "PersistenceError"]
ErrTaskDoesNotExist(id) == [type |-> "ErrTaskDoesNotExist", TaskID |-> id]
ErrUserDoesNotExist(id) == [type |-> "ErrUserDoesNotExist", UserID |-> id]
ErrGenericForbidden == [type |-> "ErrGenericForbidden"]
ErrNamespaceDoesNotExist(id) == [type |-> "ErrNamespaceDoesNotExist", ID |-> id]
ErrNeedToHaveNamespaceReadAccess(namespaceID, userID) ==
    [type |-> "ErrNeedToHaveNamespaceReadAccess", NamespaceID |-> namespaceID,
     UserID |-> userID]
ErrUserDoesNotHaveAccessToList(listID, userID) ==
    [type |-> "ErrUserDoesNotHaveAccessToList", ListID |-> listID, UserID |-> userID]

----------------------------------------------------------------------------
(* The store *)

\* type TaskAssginee: ID is the only unique column; TaskID and UserID are
\* plain INDEX columns, so the table accepts a second row for the same pair.
TaskAssginee(id, taskID, userID) == [ID |-> id, TaskID |-> taskID, UserID |-> userID]

\* A query without ORDER BY: the database may return its rows in any order.
RECURSIVE IndexOrders(_)
IndexOrders(I) ==
    IF I = {} THEN {<<>>}
    ELSE UNION {{<<i>> \o q : q \in IndexOrders(I \ {i})} : i \in I}

\* the orders of n rows, for every n a table of the model can hold
MostRows == IF MaxRowID > Len(team_namespaces) THEN MaxRowID ELSE Len(team_namespaces)
OrdersOfLen == [n \in 0..MostRows |-> IndexOrders(1..n)]

Orders(rows) ==
    {[k \in 1..Len(rows) |-> rows[f[k]]] : f \in OrdersOfLen[Len(rows)]}

\* the rows of a set, one after the other (by key, to have them in a sequence)
RECURSIVE RowsInOrder(_)
RowsInOrder(S) ==
    IF S = {} THEN <<>>
    ELSE LET r == CHOOSE r \in S : \A q \in S : r.ID <= q.ID
         IN  <<r>> \o RowsInOrder(S \ {r})

\* getRawTaskAssigneesForTasks: task_assignees INNER JOIN users WHERE task_id
\* IN taskIDs, no ORDER BY: the results the query can give, each the sequence
\* of the joined users' ids.
getRawTaskAssigneesForTasks(table, taskIDs) ==
    LET hit == RowsInOrder({r \in table : r.TaskID \in taskIDs /\ r.UserID \in users})
    IN  {[k \in 1..Len(o) |-> o[k].UserID] : o \in Orders(hit)}

\* x.Insert(TaskAssginee{TaskID, UserID})
Insert(table, id, taskID, userID) == table \cup {TaskAssginee(id, taskID, userID)}

\* s.Where("task_id = ?", t.ID).Delete(TaskAssginee{})
DeleteByTask(table, taskID) == {r \in table : r.TaskID # taskID}

\* s.In("user_id", assigneesToDelete).And("task_id = ?", t.ID).Delete(TaskAssginee{})
DeleteByTaskAndUsers(table, taskID, userIDs) ==
    {r \in table : ~(r.TaskID = taskID /\ r.UserID \in userIDs)}

\* updateListLastUpdated(&List{ID: id}): UPDATE lists SET updated = now WHERE id = ?
\* (no row matches an id that is no list, and that is no error)
updateListLastUpdated(ls, id) ==
    IF id \in DOMAIN ls THEN [ls EXCEPT ![id] = @ + 1] ELSE ls

\* CurrentSet(id): the principals assigned to a work item
CurrentSet(table, taskID) == {r.UserID : r \in {q \in table : q.TaskID = taskID}}

----------------------------------------------------------------------------
(* Locals of a handler call.  log is the history of the statements the call
   has issued, one event each:
     op   "deleteall" | "delete" | "check" | "insert" | "touch" | "canread"
     via  "s" (the session) or "x" (the engine)
     arg  the user id of a check, insert or single delete; the list id of a touch;
          the caller of a canread (the read access check of a list request)
     res  "ok" | "error" (the statement failed) | "nouser" | "denied" (of a check)
          | "noparent" (of a canread: the task or namespace does not exist)
     rows the ids of the rows the statement deleted or inserted *)

Event(op, via, arg, res, rows) ==
    [op |-> op, via |-> via, arg |-> arg, res |-> res, rows |-> rows]

Res(ok) == IF ok THEN "ok" ELSE "error"

\* A []*user.User value: the nil slice, or a slice with the users' ids
NilUsers == [nil |-> TRUE, users |-> <<>>]
Users(q) == [nil |-> FALSE, users |-> q]

\* append(slice, ...) over the elements of q: a nil slice stays nil when q is empty
AppendAll(slice, q) == IF Len(q) = 0 THEN slice ELSE Users(slice.users \o q)

\* what the next request of a client can repeat: its last request, when that
\* was a bulk replace or a remove that succeeded
NoCall == [op |-> "idle", TaskID |-> 0, UserID |-> 0, assignees |-> <<>>]
Last(l) ==
    IF l.op \in {"bulk", "delete"} /\ l.err = Nil
      THEN [op |-> l.op, TaskID |-> l.TaskID, UserID |-> l.UserID, assignees |-> l.assignees]
      ELSE NoCall

Idle ==
    [op |-> "idle", pc |-> "idle", TaskID |-> 0, ListID |-> 0, UserID |-> 0, list |-> 0,
     assignees |-> <<>>, Assignees |-> NilUsers, assigneesToDelete |-> <<>>,
     oldAssignees |-> {}, i |-> 0, err |-> Nil, session |-> "none",
     a |-> 0, search |-> <<>>, limit |-> 0, start |-> 0,
     result |-> <<>>, resultCount |-> 0, numberOfTotalItems |-> 0,
     NamespaceID |-> 0, atPage |-> {}, atCount |-> {},
     pre |-> {}, preUpdated |-> 0, repeat |-> FALSE, last |-> NoCall, log |-> <<>>]

InFlight(l) == l.pc \notin {"idle", "done"}

\* rows and list writes a call may still need (keeps the counters capped)
RowNeed(l) ==
    IF ~InFlight(l) THEN 0
    ELSE IF l.op = "bulk" THEN Len(l.assignees)
    ELSE IF l.op = "create" THEN 1 ELSE 0

TouchNeed(l) ==
    IF ~InFlight(l) THEN 0
    ELSE IF l.op = "bulk" THEN Len(l.assignees) + 1
    ELSE IF l.op = "delete" THEN 1 ELSE 0

RECURSIVE SumOver(_, _)
SumOver(S, f) ==
    IF S = {} THEN 0
    ELSE LET x == CHOOSE x \in S : TRUE IN f[x] + SumOver(S \ {x}, f)

\* what a bulk replace with desired list d will insert and write: exact when
\* no other call is running, else the most it can
Alone(p) == \A q \in Procs \ {p} : ~InFlight(call[q])

BulkRows(p, taskID, d) ==
    IF Alone(p)
      THEN Cardinality({k \in 1..Len(d) : d[k] \notin CurrentSet(task_assignees, taskID)})
      ELSE Len(d)

BulkTouches(p, taskID, d) ==
    IF Alone(p) /\ Len(d) = 0 THEN 0 ELSE BulkRows(p, taskID, d) + 1

CanStart(p, rows, touches) ==
    /\ call[p].pc = "idle"
    /\ (autoincr - 1) + SumOver(Procs \ {p}, [q \in Procs |-> RowNeed(call[q])]) + rows
          <= MaxRowID
    /\ lists[1] + SumOver(Procs \ {p}, [q \in Procs |-> TouchNeed(call[q])]) + touches
          <= MaxUpdated

\* The return of a handler.  BulkAssignees.Create ends its session:
\* s.Rollback() on an error of updateTaskAssignees, s.Commit() otherwise.
Return(l, err) ==
    [l EXCEPT !.pc = "done", !.err = err,
              !.assigneesToDelete = <<>>, !.oldAssignees = {},
              !.session = IF l.op # "bulk" THEN @
                          ELSE IF err = Nil THEN "committed" ELSE "rolledback"]

\* The order of return after a step of p: p leaves it when it starts a call
\* and joins its end when the call returns.
Returned(p) ==
    LET rest == SelectSeq(returned, LAMBDA q : q # p)
    IN  IF call'[p].pc = "done" THEN Append(rest, p) ELSE rest

\* Task.setTaskAssignees
setTaskAssignees(l, assignees) ==
    [l EXCEPT !.Assignees = IF Len(assignees) = 0 THEN NilUsers ELSE Users(assignees)]

----------------------------------------------------------------------------
Init ==
    /\ task_assignees = {}
    /\ autoincr = 1
    /\ lists = [id \in {1} |-> 0]
    /\ canRead = users
    /\ call = [p \in Procs |-> Idle]
    /\ returned = <<>>

\* The access predicate of the container is owned by the surrounding system
\* and can change between any two statements.
SetCanRead(u) ==
    /\ canRead' = IF u \in canRead THEN canRead \ {u} ELSE canRead \cup {u}
    /\ UNCHANGED <<task_assignees, autoincr, lists, call, returned>>

----------------------------------------------------------------------------
(* BulkAssignees.Create, lines 304-317: open the session, load the task and
   its assignees. *)
BulkCreate(p, taskID, assignees) ==
    /\ CanStart(p, BulkRows(p, taskID, assignees), BulkTouches(p, taskID, assignees))
    /\ LET old == call[p]
           l0 == [Idle EXCEPT !.op = "bulk", !.TaskID = taskID, !.assignees = assignees,
                              !.session = "open",
                              !.pre = task_assignees, !.preUpdated = lists[1],
                              !.repeat = old.last = [op |-> "bulk", TaskID |-> taskID,
                                                     UserID |-> 0, assignees |-> assignees]]
       IN  \/ \* one of the two queries fails (lines 308, 312)
               call' = [call EXCEPT ![p] = [l0 EXCEPT !.pc = "done", !.err = ErrPersistence]]
           \/ /\ taskID \notin DOMAIN tasks
              /\ call' = [call EXCEPT ![p] =
                     [l0 EXCEPT !.pc = "done", !.err = ErrTaskDoesNotExist(taskID)]]
           \/ /\ taskID \in DOMAIN tasks
              /\ \E loaded \in getRawTaskAssigneesForTasks(task_assignees, {taskID}) :
                   call' = [call EXCEPT ![p] =
                       [l0 EXCEPT !.pc = "load", !.ListID = tasks[taskID].ListID,
                                  !.Assignees = AppendAll(NilUsers, loaded)]]
    /\ UNCHANGED <<task_assignees, autoincr, lists, canRead>>
    /\ returned' = Returned(p)

\* Variants of the delta with a slip in the comparison of lines 96-105.
AssigneesToDeleteFirst(current, assignees) ==
    LET all == SelectSeq(current, LAMBDA id : id \notin Range(assignees))
    IN  IF Len(all) = 0 THEN <<>> ELSE <<all[1]>>

AssigneesToDeleteAll(current, assignees) == current

\* updateTaskAssignees, old assignees to delete (lines 92-108)
AssigneesToDelete(current, assignees) ==
    SelectSeq(current, LAMBDA id : id \notin Range(assignees))

\* Variant of line 82 without the early return for nothing to nothing.
NothingChangedNever(assignees, current) == FALSE

\* line 82: if we didn't change anything (from 0 to zero)
NothingChanged(assignees, current) == Len(assignees) = 0 /\ Len(current) = 0

(* Task.updateTaskAssignees, lines 60-108: load the current assignees, take
   the branch for an empty desired list, else compute the delta. *)
UpdateLoad(p) ==
    /\ call[p].op = "bulk" /\ call[p].pc = "load"
    /\ \E ok \in BOOLEAN,
          current \in getRawTaskAssigneesForTasks(task_assignees, {call[p].TaskID}) :
         LET l == call[p]
             l1 == [l EXCEPT !.Assignees = AppendAll(Users(<<>>), current)]
         IN  call' = [call EXCEPT ![p] =
                 IF ~ok THEN Return(l, ErrPersistence)
                 ELSE IF Len(l.assignees) = 0 /\ Len(current) > 0
                   THEN [l1 EXCEPT !.pc = "fastdelete"]
                 ELSE IF NothingChanged(l.assignees, current)
                   THEN Return(l1, Nil)
                 ELSE [l1 EXCEPT !.pc = IF Len(AssigneesToDelete(current, l.assignees)) > 0
                                          THEN "delete" ELSE "getlist",
                                 !.assigneesToDelete = AssigneesToDelete(current, l.assignees),
                                 !.oldAssignees = Range(current)]]
    /\ UNCHANGED <<task_assignees, autoincr, lists, canRead>>
    /\ returned' = Returned(p)

(* lines 73-79: no new assignees, delete everything right away *)
FastDelete(p) ==
    /\ call[p].op = "bulk" /\ call[p].pc = "fastdelete"
    /\ \E ok \in BOOLEAN :
         LET l == call[p]
             gone == {r.ID : r \in {q \in task_assignees : q.TaskID = l.TaskID}}
             l1 == [setTaskAssignees(l, l.assignees) EXCEPT
                      !.log = Append(@, Event("deleteall", "s", 0, Res(ok), IF ok THEN gone ELSE {}))]
         IN  /\ task_assignees' = IF ok THEN DeleteByTask(task_assignees, l.TaskID)
                                        ELSE task_assignees
             /\ call' = [call EXCEPT ![p] = Return(l1, IF ok THEN Nil ELSE ErrPersistence)]
    /\ UNCHANGED <<autoincr, lists, canRead>>
    /\ returned' = Returned(p)

(* lines 110-118: delete all assignees not passed (the statement is issued
   only when there is one to delete) *)
DeleteNotPassed(p) ==
    /\ call[p].op = "bulk" /\ call[p].pc = "delete"
    /\ \E ok \in BOOLEAN :
         LET l == call[p]
             ids == Range(l.assigneesToDelete)
             gone == {r.ID : r \in {q \in task_assignees :
                                       q.TaskID = l.TaskID /\ q.UserID \in ids}}
             l1 == [l EXCEPT !.log = Append(@, Event("delete", "s", 0, Res(ok),
                                                     IF ok THEN gone ELSE {}))]
         IN  /\ task_assignees' = IF ok
                                    THEN DeleteByTaskAndUsers(task_assignees, l.TaskID, ids)
                                    ELSE task_assignees
             /\ call' = [call EXCEPT ![p] =
                     IF ~ok THEN Return(l1, ErrPersistence)
                     ELSE [l1 EXCEPT !.pc = "getlist"]]
    /\ UNCHANGED <<autoincr, lists, canRead>>
    /\ returned' = Returned(p)

(* lines 120-125: get the list to perform later checks *)
GetList(p) ==
    /\ call[p].op = "bulk" /\ call[p].pc = "getlist"
    /\ \E ok \in BOOLEAN :
         LET l == call[p]
         IN  call' = [call EXCEPT ![p] =
                 IF ~ok THEN Return(l, ErrPersistence)
                 ELSE [l EXCEPT !.pc = "loop", !.i = 1, !.list = l.ListID]]
    /\ UNCHANGED <<task_assignees, autoincr, lists, canRead>>
    /\ returned' = Returned(p)

(* lines 128-133: the user is already assigned, continue the loop *)
LoopContinue(p) ==
    /\ call[p].op = "bulk" /\ call[p].pc = "loop"
    /\ call[p].i <= Len(call[p].assignees)
    /\ call[p].assignees[call[p].i] \in call[p].oldAssignees
    /\ call' = [call EXCEPT ![p].i = @ + 1]
    /\ UNCHANGED <<task_assignees, autoincr, lists, canRead, returned>>

\* Variant of the loop of line 128 that walks the list from its end.
NewAssigneeIDFromEnd(l) ==
    IF l.op = "bulk" THEN l.assignees[Len(l.assignees) + 1 - l.i] ELSE l.UserID

\* the id addNewAssigneeByID is called with
NewAssigneeID(l) == IF l.op = "bulk" THEN l.assignees[l.i] ELSE l.UserID

\* list.CanRead(newAssignee)
CanRead(u) == u \in canRead

\* Variant of line 215 that lets every existing user through.
AccessDeniedNever(can) == FALSE

\* line 215: if !canRead
AccessDenied(can) == ~can

(* Task.addNewAssigneeByID, lines 206-217: the user exists and has access *)
AddCheck(p) ==
    /\ \/ /\ call[p].op = "bulk" /\ call[p].pc = "loop"
          /\ call[p].i <= Len(call[p].assignees)
          /\ call[p].assignees[call[p].i] \notin call[p].oldAssignees
       \/ call[p].op = "create" /\ call[p].pc = "check"
    /\ \E ok \in BOOLEAN :
         LET l == call[p]
             u == NewAssigneeID(l)
             answer == IF ~ok THEN "error"
                       ELSE IF u \notin users THEN "nouser"
                       ELSE IF CanRead(u) THEN "ok" ELSE "denied"
             l1 == [l EXCEPT !.log = Append(@, Event("check", "x", u, answer, {}))]
         IN  call' = [call EXCEPT ![p] =
                 IF ~ok THEN Return(l1, ErrPersistence)
                 ELSE IF u \notin users THEN Return(l1, ErrUserDoesNotExist(u))
                 ELSE IF AccessDenied(CanRead(u))
                   THEN Return(l1, ErrUserDoesNotHaveAccessToList(l.list, u))
                 ELSE [l1 EXCEPT !.pc = "insert"]]
    /\ UNCHANGED <<task_assignees, autoincr, lists, canRead>>
    /\ returned' = Returned(p)

(* Task.addNewAssigneeByID, lines 219-225: x.Insert *)
AddInsert(p) ==
    /\ call[p].op \in {"bulk", "create"} /\ call[p].pc = "insert"
    /\ \E ok \in BOOLEAN :
         LET l == call[p]
             u == NewAssigneeID(l)
             l1 == [l EXCEPT !.log = Append(@, Event("insert", "x", u, Res(ok),
                                                     IF ok THEN {autoincr} ELSE {}))]
         IN  /\ task_assignees' = IF ok THEN Insert(task_assignees, autoincr, l.TaskID, u)
                                        ELSE task_assignees
             /\ autoincr' = IF ok THEN autoincr + 1 ELSE autoincr
             /\ call' = [call EXCEPT ![p] =
                     IF ok THEN [l1 EXCEPT !.pc = "touch"] ELSE Return(l1, ErrPersistence)]
    /\ UNCHANGED <<lists, canRead>>
    /\ returned' = Returned(p)

(* Task.addNewAssigneeByID, lines 227-228: updateListLastUpdated of t.ListID *)
AddTouch(p) ==
    /\ call[p].op \in {"bulk", "create"} /\ call[p].pc = "touch"
    /\ \E ok \in BOOLEAN :
         LET l == call[p]
             l1 == [l EXCEPT !.log = Append(@, Event("touch", "x", l.ListID, Res(ok), {}))]
         IN  /\ lists' = IF ok THEN updateListLastUpdated(lists, l.ListID) ELSE lists
             /\ call' = [call EXCEPT ![p] =
                     IF ~ok THEN Return(l1, ErrPersistence)
                     ELSE IF l.op = "bulk" THEN [l1 EXCEPT !.pc = "loop", !.i = @ + 1]
                     ELSE Return(l1, Nil)]
    /\ UNCHANGED <<task_assignees, autoincr, canRead>>
    /\ returned' = Returned(p)

(* lines 142-146: after the loop, set the assignees and update the list *)
LoopEnd(p) ==
    /\ call[p].op = "bulk" /\ call[p].pc = "loop"
    /\ call[p].i > Len(call[p].assignees)
    /\ \E ok \in BOOLEAN :
         LET l == call[p]
             l1 == [setTaskAssignees(l, l.assignees) EXCEPT
                      !.log = Append(@, Event("touch", "x", l.ListID, Res(ok), {}))]
         IN  /\ lists' = IF ok THEN updateListLastUpdated(lists, l.ListID) ELSE lists
             /\ call' = [call EXCEPT ![p] = Return(l1, IF ok THEN Nil ELSE ErrPersistence)]
    /\ UNCHANGED <<task_assignees, autoincr, canRead>>
    /\ returned' = Returned(p)

----------------------------------------------------------------------------
(* TaskAssginee.Create, lines 193-203: get the list of the task, then
   addNewAssigneeByID on a Task that holds the ID only (its ListID is 0). *)
Create(p, taskID, userID) ==
    /\ CanStart(p, 1, 0)
    /\ \E ok \in BOOLEAN :
         LET l0 == [Idle EXCEPT !.op = "create", !.TaskID = taskID, !.UserID = userID,
                                !.pre = task_assignees, !.preUpdated = lists[1]]
         IN  call' = [call EXCEPT ![p] =
                 IF ~ok THEN [l0 EXCEPT !.pc = "done", !.err = ErrPersistence]
                 ELSE IF taskID \notin DOMAIN tasks
                   THEN [l0 EXCEPT !.pc = "done", !.err = ErrTaskDoesNotExist(taskID)]
                 ELSE [l0 EXCEPT !.pc = "check", !.list = tasks[taskID].ListID]]
    /\ UNCHANGED <<task_assignees, autoincr, lists, canRead>>
    /\ returned' = Returned(p)

\* line 171: x.Delete(&TaskAssginee{TaskID, UserID}); the bean's non-zero
\* fields are the condition of the DELETE, and a bean without any is refused
DeletePair(table, taskID, userID) ==
    IF taskID = 0 /\ userID = 0 THEN table
    ELSE {r \in table : ~(/\ (taskID = 0 \/ r.TaskID = taskID)
                          /\ (userID = 0 \/ r.UserID = userID))}

(* TaskAssginee.Delete, lines 170-174: x.Delete of the pair *)
Delete(p, taskID, userID) ==
    /\ CanStart(p, 0, 1)
    /\ \E ok \in BOOLEAN :
         LET old == call[p]
             gone == {r.ID : r \in task_assignees \ DeletePair(task_assignees, taskID, userID)}
             l0 == [Idle EXCEPT !.op = "delete", !.TaskID = taskID, !.UserID = userID,
                                !.pre = task_assignees, !.preUpdated = lists[1],
                                !.repeat = old.last = [op |-> "delete", TaskID |-> taskID,
                                                       UserID |-> userID, assignees |-> <<>>],
                                !.log = <<Event("delete", "x", userID, Res(ok),
                                                IF ok THEN gone ELSE {})>>]
         IN  /\ task_assignees' = IF ok
                                    THEN DeletePair(task_assignees, taskID, userID)
                                    ELSE task_assignees
             /\ call' = [call EXCEPT ![p] =
                     IF ok THEN [l0 EXCEPT !.pc = "updatelist"]
                     ELSE [l0 EXCEPT !.pc = "done", !.err = ErrPersistence]]
    /\ UNCHANGED <<autoincr, lists, canRead>>
    /\ returned' = Returned(p)

\* updateListByTaskID(taskID): the task's list gets a new `updated`
updateListByTaskID(ls, taskID) ==
    updateListLastUpdated(ls, tasks[taskID].ListID)

(* TaskAssginee.Delete, lines 176-177 *)
DeleteUpdateList(p) ==
    /\ call[p].op = "delete" /\ call[p].pc = "updatelist"
    /\ \E ok \in BOOLEAN :
         LET l == call[p]
             found == l.TaskID \in DOMAIN tasks
             l1 == [l EXCEPT !.log = Append(@, Event("touch", "x",
                                      IF found THEN tasks[l.TaskID].ListID ELSE 0,
                                      Res(ok /\ found), {}))]
         IN  /\ lists' = IF ok /\ found THEN updateListByTaskID(lists, l.TaskID) ELSE lists
             /\ call' = [call EXCEPT ![p] =
                     IF ~found THEN Return(l1, ErrTaskDoesNotExist(l.TaskID))
                     ELSE Return(l1, IF ok THEN Nil ELSE ErrPersistence)]
    /\ UNCHANGED <<task_assignees, autoincr, canRead>>
    /\ returned' = Returned(p)

----------------------------------------------------------------------------
(* TaskAssginee.ReadAll *)

MaxItemsPerPage == 50   \* config.ServiceMaxItemsPerPage

\* getLimitFromPageIndex(page, perPage): <<limit, start>>
getLimitFromPageIndex(page, perPage) ==
    IF page < 1 THEN <<0, 0>>
    ELSE LET limit == IF perPage > 0 THEN perPage ELSE MaxItemsPerPage
         IN  <<limit, limit * (page - 1)>>

\* ASCII case folding of LIKE
UpperCase ==
    << "A", "B", "C", "D", "E", "F", "G", "H", "I", "J", "K", "L", "M",
       "N", "O", "P", "Q", "R", "S", "T", "U", "V", "W", "X", "Y", "Z" >>
LowerCase ==
    << "a", "b", "c", "d", "e", "f", "g", "h", "i", "j", "k", "l", "m",
       "n", "o", "p", "q", "r", "s", "t", "u", "v", "w", "x", "y", "z" >>
Lower(c) ==
    IF \E k \in 1..26 : UpperCase[k] = c
      THEN LowerCase[CHOOSE k \in 1..26 : UpperCase[k] = c]
      ELSE c

\* name LIKE pattern: % stands for any run of characters, _ for any one
\* character, every other character for itself without regard to case
RECURSIVE LikeMatch(_, _)
LikeMatch(name, pattern) ==
    IF pattern = <<>> THEN name = <<>>
    ELSE IF Head(pattern) = "%"
      THEN \/ LikeMatch(name, Tail(pattern))
           \/ name # <<>> /\ LikeMatch(Tail(name), pattern)
    ELSE /\ name # <<>>
         /\ Head(pattern) = "_" \/ Lower(Head(pattern)) = Lower(Head(name))
         /\ LikeMatch(Tail(name), Tail(pattern))

\* users.username LIKE "%" + search + "%" (the search string is not escaped)
Like(name, search) == LikeMatch(name, <<"%">> \o search \o <<"%">>)

\* the rows of task_assignees INNER JOIN users WHERE task_id = ? AND
\* users.username LIKE ?
MatchingRows(table, taskID, search) ==
    {r \in table : /\ r.TaskID = taskID
                   /\ r.UserID \in users
                   /\ Like(username[r.UserID], search)}

\* the results that query can give without a limit (no ORDER BY), each the
\* sequence of the joined users' ids
Matching(table, taskID, search) ==
    {[k \in 1..Len(o) |-> o[k].UserID] :
        o \in Orders(RowsInOrder(MatchingRows(table, taskID, search)))}

\* query.Limit(limit, start) when limit > 0
Page(rows, limit, start) ==
    IF limit > 0
      THEN SubSeq(rows, start + 1, IF start + limit < Len(rows) THEN start + limit ELSE Len(rows))
      ELSE rows

\* Variant of line 255 that lets every caller through.
ForbiddenNever(can) == FALSE

\* line 255: if !can
Forbidden(can) == ~can

(* lines 245-258: the list of the task, the caller's read access, the page *)
ReadAll(p, taskID, a, search, page, perPage) ==
    /\ call[p].pc = "idle"
    /\ \E ok \in BOOLEAN :
         LET answer == IF ~ok THEN "error"
                       ELSE IF taskID \notin DOMAIN tasks THEN "noparent"
                       ELSE IF CanRead(a) THEN "ok" ELSE "denied"
             l0 == [Idle EXCEPT !.op = "readall", !.TaskID = taskID, !.a = a,
                                !.search = search,
                                !.log = <<Event("canread", "x", a, answer, {})>>]
             ls == getLimitFromPageIndex(page, perPage)
         IN  call' = [call EXCEPT ![p] =
                 IF ~ok THEN [l0 EXCEPT !.pc = "done", !.err = ErrPersistence]
                 ELSE IF taskID \notin DOMAIN tasks
                   THEN [l0 EXCEPT !.pc = "done", !.err = ErrTaskDoesNotExist(taskID)]
                 ELSE IF Forbidden(CanRead(a))
                   THEN [l0 EXCEPT !.pc = "done", !.err = ErrGenericForbidden]
                 ELSE [l0 EXCEPT !.pc = "page", !.list = tasks[taskID].ListID,
                                 !.limit = ls[1], !.start = ls[2]]]
    /\ UNCHANGED <<task_assignees, autoincr, lists, canRead>>
    /\ returned' = Returned(p)

(* lines 260-271: the page of assignees *)
ReadPage(p) ==
    /\ call[p].op = "readall" /\ call[p].pc = "page"
    /\ \E ok \in BOOLEAN,
          found \in Matching(task_assignees, call[p].TaskID, call[p].search) :
         LET l == call[p]
             rows == Page(found, l.limit, l.start)
         IN  call' = [call EXCEPT ![p] =
                 IF ok THEN [l EXCEPT !.pc = "count", !.result = rows,
                                      !.atPage = task_assignees]
                 ELSE Return(l, ErrPersistence)]
    /\ UNCHANGED <<task_assignees, autoincr, lists, canRead>>
    /\ returned' = Returned(p)

\* Variant of lines 273-277 that counts without the search condition.
CountAll(table, taskID, search) == Cardinality(MatchingRows(table, taskID, <<>>))

\* lines 273-277: Count over the same join and condition as the page
CountMatching(table, taskID, search) == Cardinality(MatchingRows(table, taskID, search))

(* lines 273-278: the total count, a second query *)
ReadCount(p) ==
    /\ call[p].op = "readall" /\ call[p].pc = "count"
    /\ \E ok \in BOOLEAN :
         LET l == call[p]
             n == CountMatching(task_assignees, l.TaskID, l.search)
             l1 == [l EXCEPT !.resultCount = Len(l.result),
                             !.numberOfTotalItems = IF ok THEN n ELSE 0,
                             !.atCount = task_assignees]
         IN  call' = [call EXCEPT ![p] = Return(l1, IF ok THEN Nil ELSE ErrPersistence)]
    /\ UNCHANGED <<task_assignees, autoincr, lists, canRead>>
    /\ returned' = Returned(p)

----------------------------------------------------------------------------
(* TeamNamespace.ReadAll *)

\* lines 16-20: teams INNER JOIN team_namespaces ON team_id = teams.id
\* WHERE team_namespaces.namespace_id = ?; one result row per link row, here
\* the teams' ids in the order of the link rows
TeamsOfNamespace(namespaceID) ==
    LET hit == SelectSeq(team_namespaces,
                         LAMBDA r : r.NamespaceID = namespaceID /\ r.TeamID \in teams)
    IN  [k \in 1..Len(hit) |-> hit[k].TeamID]

(* lines 3-11: get the namespace, check that the user can read it *)
TeamNamespaceReadAll(p, namespaceID, user) ==
    /\ call[p].pc = "idle"
    /\ \E ok \in BOOLEAN :
         LET answer == IF ~ok THEN "error"
                       ELSE IF namespaceID \notin namespaces THEN "noparent"
                       ELSE IF user \in namespaceReaders THEN "ok" ELSE "denied"
             l0 == [Idle EXCEPT !.op = "teamsreadall", !.NamespaceID = namespaceID,
                                !.a = user,
                                !.log = <<Event("canread", "x", user, answer, {})>>]
         IN  call' = [call EXCEPT ![p] =
                 IF ~ok THEN [l0 EXCEPT !.pc = "done", !.err = ErrPersistence]
                 ELSE IF namespaceID \notin namespaces
                   THEN [l0 EXCEPT !.pc = "done", !.err = ErrNamespaceDoesNotExist(namespaceID)]
                 ELSE IF ~(user \in namespaceReaders)
                   THEN [l0 EXCEPT !.pc = "done",
                                   !.err = ErrNeedToHaveNamespaceReadAccess(namespaceID, user)]
                 ELSE [l0 EXCEPT !.pc = "teams"]]
    /\ UNCHANGED <<task_assignees, autoincr, lists, canRead>>
    /\ returned' = Returned(p)

(* lines 13-22: get the teams; all is returned together with err *)
TeamNamespaceFind(p) ==
    /\ call[p].op = "teamsreadall" /\ call[p].pc = "teams"
    /\ \E ok \in BOOLEAN, found \in Orders(TeamsOfNamespace(call[p].NamespaceID)) :
         LET l == call[p]
             all == IF ok THEN found ELSE <<>>
         IN  call' = [call EXCEPT ![p] =
                 Return([l EXCEPT !.result = all], IF ok THEN Nil ELSE ErrPersistence)]
    /\ UNCHANGED <<task_assignees, autoincr, lists, canRead>>
    /\ returned' = Returned(p)

----------------------------------------------------------------------------
\* The request has returned: its receiver and its task object are dropped, and
\* the client can send its next request.
Release(p) ==
    /\ call[p].pc = "done"
    /\ call' = [call EXCEPT ![p] = [Idle EXCEPT !.last = Last(call[p])]]
    /\ UNCHANGED <<task_assignees, autoincr, lists, canRead, returned>>

Step(p) ==
    \/ \E in \in BulkInputs : BulkCreate(p, in[1], in[2])
    \/ UpdateLoad(p)
    \/ FastDelete(p)
    \/ DeleteNotPassed(p)
    \/ GetList(p)
    \/ LoopContinue(p)
    \/ AddCheck(p)
    \/ AddInsert(p)
    \/ AddTouch(p)
    \/ LoopEnd(p)
    \/ \E in \in Pairs : Create(p, in[1], in[2])
    \/ \E in \in Pairs : Delete(p, in[1], in[2])
    \/ DeleteUpdateList(p)
    \/ Release(p)

\* One request at a time.
Next ==
    \/ Step("p1")
    \/ \E u \in Revocable : SetCanRead(u)

Spec == Init /\ [][Next]_vars

----------------------------------------------------------------------------
(* Two concurrent requests on work item 1, each process serving one request:
   a bulk replace or a list.  The table starts empty or with user 1
   assigned by an earlier single add. *)

ConcDesired == SeqsUpTo({1, 2}, MaxLen)

InitConc ==
    /\ \E rows \in {{}, {TaskAssginee(1, 1, 1)}} :
          /\ task_assignees = rows
          /\ autoincr = Cardinality(rows) + 1
    /\ lists = [id \in {1} |-> 0]
    /\ canRead = users
    /\ call = [p \in Procs |-> Idle]
    /\ returned = <<>>

StepConc(p) ==
    \/ /\ call[p].pc = "idle"
       /\ \E d \in ConcDesired : BulkCreate(p, 1, d)
    \/ /\ call[p].pc = "idle"
       /\ \E search \in {<<>>, <<"b">>}, page \in {0, 1} : ReadAll(p, 1, 1, search, page, 1)
    \/ UpdateLoad(p)
    \/ FastDelete(p)
    \/ DeleteNotPassed(p)
    \/ GetList(p)
    \/ LoopContinue(p)
    \/ AddCheck(p)
    \/ AddInsert(p)
    \/ AddTouch(p)
    \/ LoopEnd(p)
    \/ ReadPage(p)
    \/ ReadCount(p)

NextConc == \E p \in Procs : StepConc(p)

SpecConc == InitConc /\ [][NextConc]_vars

----------------------------------------------------------------------------
(* A list request next to a single add or remove: p1 serves one list request
   (the assignees of a task, the teams of a namespace), p2 serves one single
   add or remove, and the read access of user 3 to list 1 changes over time.
   The table starts empty or with the rows of earlier single adds. *)

InitList ==
    /\ \E rows \in {{}, {TaskAssginee(1, 1, 1)},
                     {TaskAssginee(1, 1, 1), TaskAssginee(2, 1, 2)}} :
          /\ task_assignees = rows
          /\ autoincr = Cardinality(rows) + 1
    /\ lists = [id \in {1} |-> 0]
    /\ canRead = users
    /\ call = [p \in Procs |-> Idle]
    /\ returned = <<>>

StepRead(p) ==
    \/ /\ call[p].pc = "idle"
       /\ \E taskID \in TaskIDs, a \in Callers, search \in Searches, page \in {0, 1, 2} :
             ReadAll(p, taskID, a, search, page, 1)
    \/ ReadPage(p)
    \/ ReadCount(p)
    \/ /\ call[p].pc = "idle"
       /\ \E namespaceID \in NamespaceIDs, user \in Callers :
             TeamNamespaceReadAll(p, namespaceID, user)
    \/ TeamNamespaceFind(p)

StepWrite(p) ==
    \/ /\ call[p].pc = "idle"
       /\ \E in \in Pairs : Create(p, in[1], in[2])
    \/ AddCheck(p)
    \/ AddInsert(p)
    \/ AddTouch(p)
    \/ /\ call[p].pc = "idle"
       /\ \E in \in Pairs : Delete(p, in[1], in[2])
    \/ DeleteUpdateList(p)

NextList ==
    \/ StepRead("p1")
    \/ StepWrite("p2")
    \/ \E u \in Revocable : SetCanRead(u)

SpecList == InitList /\ [][NextList]_vars

----------------------------------------------------------------------------
(* Properties.  Spec runs one request at a time, so between the start and
   the return of a call no other writer touches the table: l.pre is the
   table the call started from and task_assignees the table it left. *)

BulkDone(l) == l.op = "bulk" /\ l.pc = "done"
Desired(l) == Range(l.assignees)
OfTask(table, taskID) == {r \in table : r.TaskID = taskID}
Container(l) == tasks[l.TaskID].ListID
OkEvents(l, op) == {k \in 1..Len(l.log) : l.log[k].op = op /\ l.log[k].res = "ok"}
Denials(l) == {k \in 1..Len(l.log) : l.log[k].op = "check" /\ l.log[k].res = "denied"}
\* writes of the container's `updated` column made by the call
Touches(l) == {k \in OkEvents(l, "touch") : l.log[k].arg = Container(l)}

\* C1 (as claimed): all-or-nothing.  Whenever a bulk replace returns the
\* access-denied error for some principal of the desired list, the table is
\* the table the call started from: nothing it removed or added survives.
AllOrNothing ==
    \A p \in Procs :
        (BulkDone(call[p]) /\ call[p].err.type = "ErrUserDoesNotHaveAccessToList")
            => task_assignees = call[p].pre

\* C2: set equivalence.  After a bulk replace with desired list S returned
\* success (no concurrent writer), the set of principals assigned to the work
\* item is exactly the set of S.
SetEquivalence ==
    \A p \in Procs :
        (BulkDone(call[p]) /\ call[p].err = Nil)
            => CurrentSet(task_assignees, call[p].TaskID) = Desired(call[p])

\* C2 witness: a successful bulk replace that had to remove one principal,
\* keep another and add a third.
SetEquivalenceWitness ==
    \E p \in Procs :
        LET l == call[p]
            cur == CurrentSet(l.pre, l.TaskID)
        IN  /\ BulkDone(l) /\ l.err = Nil
            /\ cur \ Desired(l) # {}
            /\ Desired(l) \ cur # {}
            /\ Desired(l) \cap cur # {}
            /\ Desired(l) \subseteq canRead

\* C3 (as claimed): uniqueness.  In every reachable state there is at most
\* one row per (work item, principal) pair.
UniquePairs ==
    \A r \in task_assignees, q \in task_assignees :
        (r.TaskID = q.TaskID /\ r.UserID = q.UserID) => r = q

\* C4: access gating of additions.  In a single add and in a bulk replace,
\* every insert is the statement right after an access check of the same
\* principal that answered allowed; a check that answers not allowed is the
\* last statement of the call, which returns ErrUserDoesNotHaveAccessToList
\* with the container's id and the principal's id, so the principal is not
\* inserted.
AccessGating ==
    \A p \in Procs :
        LET l == call[p]
        IN  \A k \in 1..Len(l.log) :
              /\ l.log[k].op = "insert" =>
                    /\ k > 1
                    /\ l.log[k - 1].op = "check"
                    /\ l.log[k - 1].arg = l.log[k].arg
                    /\ l.log[k - 1].res = "ok"
              /\ k \in Denials(l) =>
                    /\ k = Len(l.log)
                    /\ l.pc = "done"
                    /\ l.err = ErrUserDoesNotHaveAccessToList(Container(l), l.log[k].arg)

\* C4 witness: a bulk replace that inserted one principal after its check
\* and was then denied for the next one.
AccessGatingWitness ==
    /\ \E p \in Procs :
         LET l == call[p]
         IN  /\ BulkDone(l)
             /\ OkEvents(l, "insert") # {}
             /\ Denials(l) # {}
             /\ l.err.type = "ErrUserDoesNotHaveAccessToList"

\* C5 (as claimed): validate before apply.  In a bulk replace no delete and
\* no insert has been executed when an access denial is detected.
ValidateBeforeApply ==
    \A p \in Procs :
        LET l == call[p]
        IN  l.op = "bulk" =>
              \A k \in Denials(l) :
                  \A j \in 1..(k - 1) : l.log[j].op \notin {"delete", "insert"}

\* C6 (as claimed): a successful bulk replace with a non-empty delta writes
\* the container's last-modified marker exactly once.
TouchedExactlyOnce ==
    \A p \in Procs :
        LET l == call[p]
        IN  (BulkDone(l) /\ l.err = Nil /\ task_assignees # l.pre)
              => /\ Cardinality(Touches(l)) = 1
                 /\ lists[Container(l)] = l.preUpdated + 1

\* C7 (as claimed): idempotence.  A successful bulk replace that repeats the
\* successful bulk replace right before it (same work item, same desired
\* list) leaves the table and the container's marker as they were.
Idempotence ==
    \A p \in Procs :
        LET l == call[p]
        IN  (BulkDone(l) /\ l.err = Nil /\ l.repeat)
              => /\ task_assignees = l.pre
                 /\ lists[Container(l)] = l.preUpdated

\* C10: minimal delta.  A successful bulk replace with a non-empty desired
\* list removes exactly the rows of current \ desired, adds rows for exactly
\* the principals of desired \ current, and leaves the row of a principal in
\* both as it was (same row id).
MinimalDelta ==
    \A p \in Procs :
        LET l == call[p]
            cur == CurrentSet(l.pre, l.TaskID)
        IN  (BulkDone(l) /\ l.err = Nil /\ Len(l.assignees) > 0)
              => /\ l.pre \ task_assignees =
                        {r \in OfTask(l.pre, l.TaskID) : r.UserID \in cur \ Desired(l)}
                 /\ {r.UserID : r \in task_assignees \ l.pre} = Desired(l) \ cur
                 /\ \A r \in task_assignees \ l.pre : r.TaskID = l.TaskID
                 /\ \A r \in OfTask(l.pre, l.TaskID) :
                        r.UserID \in Desired(l) => r \in task_assignees

\* C10 witness: current {1, 2}, desired {2, 3}: 1 removed, 3 added, the row
\* of 2 kept.
MinimalDeltaWitness ==
    \E p \in Procs :
        LET l == call[p]
        IN  /\ BulkDone(l) /\ l.err = Nil
            /\ CurrentSet(l.pre, l.TaskID) = {1, 2}
            /\ Desired(l) = {2, 3}
            /\ CurrentSet(task_assignees, l.TaskID) = {2, 3}
            /\ \E r \in l.pre : r.UserID = 2 /\ r \in task_assignees

\* C11: empty-to-empty no-op.  A bulk replace with an empty desired list on
\* an existing work item without assignments issues no delete, no insert and
\* no write of the container's marker, leaves the table and the marker as
\* they were, and returns success unless loading the task or its assignees
\* failed.
EmptyToEmptyNoOp ==
    \A p \in Procs :
        LET l == call[p]
        IN  (/\ BulkDone(l) /\ l.assignees = <<>>
             /\ l.TaskID \in DOMAIN tasks
             /\ OfTask(l.pre, l.TaskID) = {})
              => /\ l.log = <<>>
                 /\ task_assignees = l.pre
                 /\ lists[Container(l)] = l.preUpdated
                 /\ l.err \in {Nil, ErrPersistence}
                 /\ l.session = "committed" => l.err = Nil

\* C11 witness: such a call returned success while another work item's
\* container marker had already been written before.
EmptyToEmptyWitness ==
    \E p \in Procs :
        LET l == call[p]
        IN  /\ BulkDone(l) /\ l.assignees = <<>> /\ l.TaskID \in DOMAIN tasks
            /\ OfTask(l.pre, l.TaskID) = {}
            /\ l.err = Nil /\ l.session = "committed"
            /\ l.preUpdated > 0

\* C12 (as claimed): idempotent single remove.  A single remove returns
\* success whether or not the pair was assigned (a failed statement apart);
\* after its delete statement the table is the table before the call without
\* the rows of the pair, so an unassigned pair leaves the table unchanged and
\* a repeat of a successful remove changes nothing more and succeeds again.
IdempotentRemove ==
    \A p \in Procs :
        LET l == call[p]
            pair == {r \in l.pre : r.TaskID = l.TaskID /\ r.UserID = l.UserID}
        IN  (l.op = "delete" /\ l.pc = "done")
              => /\ l.err \in {Nil, ErrPersistence}
                 /\ l.log[1].res = "ok" => task_assignees = l.pre \ pair
                 /\ l.log[1].res # "ok" => task_assignees = l.pre
                 /\ (l.log[1].res = "ok" /\ pair = {}) => task_assignees = l.pre
                 /\ l.repeat => (pair = {} /\ task_assignees = l.pre)

\* C13 (as claimed): insert conflict.  A single add of a pair that is
\* already assigned leaves the table as it was, and once the principal passed
\* the access check the add fails with a Conflict error (no statement of the
\* call failing for another reason).
InsertConflict ==
    \A p \in Procs :
        LET l == call[p]
        IN  (/\ l.op = "create" /\ l.pc = "done"
             /\ l.UserID \in CurrentSet(l.pre, l.TaskID)
             /\ \A k \in 1..Len(l.log) : l.log[k].res # "error")
              => /\ task_assignees = l.pre
                 /\ OkEvents(l, "check") # {} => l.err.type = "Conflict"

\* C14 (as claimed): terminal states.  When a bulk replace has returned, its
\* transaction scope is committed or rolled back: committed if it returned
\* success, rolled back if it returned an error, never still open.
TerminalStates ==
    \A p \in Procs :
        LET l == call[p]
        IN  BulkDone(l) =>
              /\ l.session \in {"committed", "rolledback"}
              /\ l.err = Nil <=> l.session = "committed"

\* C15 (as claimed): single transaction boundary.  Every statement of a bulk
\* replace that writes (the deletes, each insert, each write of the
\* container's marker) is issued through the session opened for the call.
SingleTransactionBoundary ==
    \A p \in Procs :
        LET l == call[p]
        IN  l.op = "bulk" =>
              \A k \in 1..Len(l.log) :
                  l.log[k].op \in {"deleteall", "delete", "insert", "touch"}
                      => l.log[k].via = "s"

\* consultations of the access gate for principal u made by the call
Consulted(l, u) ==
    {k \in 1..Len(l.log) : /\ l.log[k].op = "check" /\ l.log[k].arg = u
                           /\ l.log[k].res \in {"ok", "denied"}}

\* C16 (as claimed): access check scope.  In a bulk replace the access gate
\* is consulted for principals of desired \ current only and at most once
\* for each, exactly once for each when the call succeeds; no check precedes
\* the delete of the removals; and the rows of a principal in both current
\* and desired stay, unchecked, whether or not the principal still passes.
AccessCheckScope ==
    \A p \in Procs :
        LET l == call[p]
            cur == CurrentSet(l.pre, l.TaskID)
            toAdd == Desired(l) \ cur
        IN  (l.op = "bulk" /\ l.TaskID \in DOMAIN tasks) =>
              /\ \A u \in UserIDs :
                    /\ Consulted(l, u) # {} => u \in toAdd
                    /\ Cardinality(Consulted(l, u)) <= 1
                    /\ (l.pc = "done" /\ l.err = Nil /\ u \in toAdd)
                          => Cardinality(Consulted(l, u)) = 1
              /\ \A k \in 1..Len(l.log) :
                    l.log[k].op \in {"delete", "deleteall"} => k = 1
              /\ \A r \in OfTask(l.pre, l.TaskID) :
                    r.UserID \in Desired(l) => r \in task_assignees

\* C17: first failure wins.  When a bulk replace returns the error of an
\* unknown or denied principal, that principal's check is the last statement
\* of the call, every principal before its first position in the desired
\* list was already assigned or passed its check and was inserted, and no
\* principal that appears only after that position was checked or inserted.
FirstFailureWins ==
    \A p \in Procs :
        LET l == call[p]
            cur == CurrentSet(l.pre, l.TaskID)
            u == l.err.UserID
            f == CHOOSE j \in 1..Len(l.assignees) :
                     /\ l.assignees[j] = u
                     /\ \A m \in 1..(j - 1) : l.assignees[m] # u
        IN  (/\ BulkDone(l)
             /\ l.err.type \in {"ErrUserDoesNotExist", "ErrUserDoesNotHaveAccessToList"})
              => /\ u \in Range(l.assignees)
                 /\ l.log[Len(l.log)].op = "check" /\ l.log[Len(l.log)].arg = u
                 /\ l.log[Len(l.log)].res \in {"nouser", "denied"}
                 /\ \A j \in 1..(f - 1) :
                        \/ l.assignees[j] \in cur
                        \/ \E k \in OkEvents(l, "check") :
                              /\ l.log[k].arg = l.assignees[j]
                              /\ k + 1 \in OkEvents(l, "insert")
                              /\ l.log[k + 1].arg = l.assignees[j]
                 /\ \A j \in (f + 1)..Len(l.assignees) :
                        l.assignees[j] \notin {l.assignees[m] : m \in 1..f}
                          => \A k \in 1..Len(l.log) :
                                l.log[k].op \in {"check", "insert"}
                                    => l.log[k].arg # l.assignees[j]

\* C17 witness: desired list [4, 3] where 4 is no user and 3 has no access:
\* the call returned the error of 4 and never checked 3.
FirstFailureWitness ==
    \E p \in Procs :
        LET l == call[p]
        IN  /\ BulkDone(l) /\ l.assignees = <<4, 3>>
            /\ 3 \notin canRead
            /\ l.err = ErrUserDoesNotExist(4)
            /\ \A k \in 1..Len(l.log) : l.log[k].arg # 3

\* a list request that handed no rows to its caller
NoRows(l) == l.result = <<>> /\ l.resultCount = 0 /\ l.numberOfTotalItems = 0

\* C18: read gating.  A list request (assignees of a task, teams of a
\* namespace) reads and returns rows only after its access check answered
\* yes for the caller; when the check answers no it returns the forbidden
\* error of its kind and no rows, and when the parent is not found or its
\* lookup fails it returns that error and no rows.
ReadGating ==
    \A p \in Procs :
        LET l == call[p]
            forbidden == IF l.op = "readall" THEN ErrGenericForbidden
                         ELSE ErrNeedToHaveNamespaceReadAccess(l.NamespaceID, l.a)
            notFound == IF l.op = "readall" THEN ErrTaskDoesNotExist(l.TaskID)
                        ELSE ErrNamespaceDoesNotExist(l.NamespaceID)
        IN  l.op \in {"readall", "teamsreadall"} =>
              /\ l.log[1].op = "canread" /\ l.log[1].arg = l.a
              /\ (l.pc \in {"page", "count", "teams"} \/ ~NoRows(l) \/ l.err = Nil)
                    => l.log[1].res = "ok"
              /\ l.log[1].res = "denied" => (l.pc = "done" /\ l.err = forbidden /\ NoRows(l))
              /\ l.log[1].res = "noparent" => (l.pc = "done" /\ l.err = notFound /\ NoRows(l))
              /\ l.log[1].res = "error" => (l.pc = "done" /\ l.err = ErrPersistence /\ NoRows(l))

\* C18 witness: a caller without read access asked for the assignees of a
\* task that has some, and got the forbidden error.
ReadGatingWitness ==
    \E p \in Procs :
        LET l == call[p]
        IN  /\ l.op = "readall" /\ l.pc = "done"
            /\ l.log[1].res = "denied" /\ l.err = ErrGenericForbidden
            /\ MatchingRows(task_assignees, l.TaskID, l.search) # {}

PostStateMatchesStore ==
    \A p \in Procs :
        LET l == call[p]
        IN  (BulkDone(l) /\ l.session \in {"committed", "rolledback"})
              => Range(l.Assignees.users) = CurrentSet(task_assignees, l.TaskID)

\* C8 (as claimed): reader atomicity.  A list request that reads all
\* assignees of the work item (no search, no page limit) while one successful
\* bulk replace is the only writer sees the complete set from before that
\* call or the complete desired set, never something in between.
ReaderAtomicity ==
    \A r \in Procs, w \in Procs :
        LET rd == call[r]
            wr == call[w]
        IN  (/\ rd.op = "readall" /\ rd.pc = "done" /\ rd.err = Nil
             /\ rd.search = <<>> /\ rd.limit = 0
             /\ BulkDone(wr) /\ wr.err = Nil /\ wr.TaskID = rd.TaskID)
              => \/ Range(rd.result) = CurrentSet(wr.pre, wr.TaskID)
                 \/ Range(rd.result) = Desired(wr)

\* C9 (as claimed): last writer wins.  When two bulk replaces of the same
\* work item both returned success, the assigned set is the desired set of
\* the one that returned (committed) last.
LastWriterWins ==
    (/\ \A p \in Procs : BulkDone(call[p]) /\ call[p].err = Nil
     /\ Len(returned) = Cardinality(Procs))
        => CurrentSet(task_assignees, 1) = Desired(call[returned[Len(returned)]])

====
